---- MODULE Spec2Model ----
(***************************************************************************)
(* A model of the bulk-transfer engine of goserver (server.go): the three  *)
(* protocol endpoints /small, /large and /slurp, the chunked payload       *)
(* writer, the counting discard sink, the once-built discovery document,   *)
(* the error classifier and the throughput reporter PrintStats.            *)
(*                                                                         *)
(* Every request is served by one process p.  A step is one access to      *)
(* shared state (an atomic add, the once, the buffer pool, the logger) or  *)
(* one call into the transport (a Write on the response, a Read on the     *)
(* request body), together with the local code around it.                  *)
(***************************************************************************)
EXTENDS Integers, Sequences, FiniteSets, TLC

(***************************************************************************)
(* Bounds of the model.                                                    *)
(***************************************************************************)
\* number of requests served concurrently in the concurrent specifications
MaxProcs == 2
\* whole chunks in the lengths handed to chunkedBodyWriter directly
MaxChunks == 2
\* whole chunks of the large download: the source's 8 GiB is 131072 chunks
\* of chunkSize with no remainder; the loop only ever compares n with
\* chunkSize and 0, so the model runs it over LargeChunks whole chunks
LargeChunks == 2
\* reads a request body answers without an error before it must end
MaxReads == 2
\* the most layers of fmt.Errorf("%w") around an error given to ignorableError
MaxWrap == 1

Procs == 1..MaxProcs

(***************************************************************************)
(* Program constants.                                                      *)
(***************************************************************************)
smallContentLength == 1
chunkSize == 64 * 1024
largeContentLength == LargeChunks * chunkSize
\* len of a scratch buffer of blackHolePool
blackHoleSize == 8192

StatusOK == 200
StatusBadRequest == 400
StatusMethodNotAllowed == 405

MethodGet == "GET"
MethodHead == "HEAD"
Methods == {MethodGet, MethodHead, "POST", "DELETE"}

(***************************************************************************)
(* strconv.FormatInt(i, 10)                                                *)
(***************************************************************************)
Digit == <<"0", "1", "2", "3", "4", "5", "6", "7", "8", "9">>

RECURSIVE FormatNat(_)
FormatNat(i) ==
    IF i < 10 THEN Digit[i + 1]
    ELSE FormatNat(i \div 10) \o Digit[(i % 10) + 1]

FormatInt(i) == IF i < 0 THEN "-" \o FormatNat(0 - i) ELSE FormatNat(i)

(***************************************************************************)
(* Go error values.  id is the identity of the value (what == compares),   *)
(* chain the identities errors.Is finds by unwrapping (the value itself    *)
(* included), text what Error() returns.                                   *)
(***************************************************************************)
nil == [id |-> "nil", chain |-> {}, text |-> ""]
EOF == [id |-> "io.EOF", chain |-> {"io.EOF"}, text |-> "EOF"]
EPIPE == [id |-> "EPIPE", chain |-> {"EPIPE"}, text |-> "broken pipe"]
ECONNRESET ==
    [id |-> "ECONNRESET", chain |-> {"ECONNRESET"},
     text |-> "connection reset by peer"]
\* a *net.OpError around the errno, as a TCP write or read returns it
OpErrorEPIPE ==
    [id |-> "OpError", chain |-> {"OpError", "SyscallError", "EPIPE"},
     text |-> "write tcp: write: broken pipe"]
OpErrorECONNRESET ==
    [id |-> "OpError", chain |-> {"OpError", "SyscallError", "ECONNRESET"},
     text |-> "read tcp: read: connection reset by peer"]
\* http.http2errClientDisconnected
ClientDisconnected ==
    [id |-> "http2errClientDisconnected",
     chain |-> {"http2errClientDisconnected"},
     text |-> "client disconnected"]
\* an error that is none of the above
Timeout ==
    [id |-> "timeoutError", chain |-> {"timeoutError"},
     text |-> "i/o timeout"]
UnexpectedEOF ==
    [id |-> "io.ErrUnexpectedEOF", chain |-> {"io.ErrUnexpectedEOF"},
     text |-> "unexpected EOF"]

\* what a Write on the response can fail with
WriteErrors == {EPIPE, OpErrorEPIPE, ECONNRESET, ClientDisconnected, Timeout}
\* what a Read on the request body can fail with (EOF ends the stream)
ReadErrors == {EOF, UnexpectedEOF, OpErrorECONNRESET, Timeout}

ErrorsIs(e, target) == target \in e.chain

\* fmt.Errorf(prefix + ": %w", e): a new value around e, which errors.Is
\* unwraps, and whose text has e's text behind the prefix
Wrap(e, prefix) ==
    [id |-> "wrapError", chain |-> {"wrapError"} \cup e.chain,
     text |-> prefix \o ": " \o e.text]

\* errors.New with the text of an errno or of the HTTP/2 disconnect: values
\* that only read like the ignorable ones
TextBrokenPipe ==
    [id |-> "errorString", chain |-> {"errorString"}, text |-> "broken pipe"]
TextClientDisconnected ==
    [id |-> "errorString", chain |-> {"errorString"},
     text |-> "client disconnected"]

\* the classifier with == where errors.Is belongs
ignorableErrorByIdentity(e) ==
    IF e = nil THEN TRUE
    ELSE IF e.id = "EPIPE" THEN TRUE
    ELSE IF e.id = "ECONNRESET" THEN TRUE
    ELSE IF e.text = "client disconnected" THEN TRUE
    ELSE FALSE

\* ignorableError returns true if error does not effect results of clients
ignorableError(e) ==
    IF e = nil THEN TRUE
    ELSE IF ErrorsIs(e, "EPIPE") THEN TRUE
    ELSE IF ErrorsIs(e, "ECONNRESET") THEN TRUE
    ELSE IF e.text = "client disconnected" THEN TRUE
    ELSE FALSE

(***************************************************************************)
(* Helpers on the model's own data.                                        *)
(***************************************************************************)
RECURSIVE SumSeq(_)
SumSeq(s) == IF s = <<>> THEN 0 ELSE Head(s) + SumSeq(Tail(s))

\* a header map with key k set to v
HeaderSet(hd, k, v) == (k :> v) @@ hd

\* setCors
setCors(hd) ==
    HeaderSet(HeaderSet(hd, "Access-Control-Allow-Origin", "*"),
              "Access-Control-Allow-Headers", "*")

\* setNoPublicCache
setNoPublicCache(hd) ==
    HeaderSet(HeaderSet(hd, "Proxy-Cache-Control", "max-age=604800, public"),
              "Cache-Control",
              "no-store, must-revalidate, private, max-age=0")

\* a store where the add belongs
StoreUint64(v, delta) == delta

\* atomic.AddUint64(addr, delta): one indivisible read-modify-write.  The
\* counters are uint64 and stay far below 2^64 within the bounds.
AtomicAddUint64(v, delta) == v + delta

(***************************************************************************)
(* State.                                                                  *)
(***************************************************************************)
VARIABLES
    h,                \* the handlers value: EnableCORS and whether it counts
    m,                \* the Server's configuration fields
    BytesServed,      \* Server.BytesServed, *handlers.BytesServed
    BytesReceived,    \* Server.BytesReceived, *handlers.BytesReceived
    once,             \* Server.once: "fresh", "running" or "done"
    generatedConfig,  \* Server.generatedConfig ("" is the nil slice)
    builds,           \* how many times generateConfig has run
    logs,             \* what log.Printf has printed, in order
    blackHolePool,    \* idle scratch buffers in blackHolePool
    pc,               \* where each request's goroutine stands
    req,              \* each request: path, method, contentLength
    n,                \* the local n of chunkedBodyWriter and of ReadFrom
    err,              \* the local err
    bufp,             \* whether ReadFrom holds a scratch buffer
    resp,             \* what the handler did to its ResponseWriter
    reads,            \* what the request body has returned to Read, in order
    classify,         \* a call of ignorableError: the wraps made, the result
    stats             \* PrintStats: where it stands and its locals

vars ==
    <<h, m, BytesServed, BytesReceived, once, generatedConfig, builds, logs,
      blackHolePool, pc, req, n, err, bufp, resp, reads, classify, stats>>

\* what no request handler touches
aux == <<classify, stats>>

server == <<m, once, generatedConfig, builds>>
upload == <<BytesReceived, blackHolePool, bufp, reads>>

\* a ResponseWriter nothing has been done to
NoResponse ==
    [status |-> 0, header |-> <<>>, sent |-> <<>>, writes |-> <<>>,
     attempts |-> 0, body |-> ""]

NoRequest == [path |-> "", method |-> "", contentLength |-> 0]

\* the values Scheme, PublicHostPort and ContextPath are configured with
Configs ==
    {[Scheme |-> "https", PublicHostPort |-> "nq.example.com:4043",
      ContextPath |-> ""],
     [Scheme |-> "http", PublicHostPort |-> "localhost:4080",
      ContextPath |-> "/api/v1"]}

Servers ==
    {[Scheme |-> c.Scheme, PublicHostPort |-> c.PublicHostPort,
      ContextPath |-> c.ContextPath, PublicPort |-> 4043,
      EnableCORS |-> cors, EnableH3AltSvc |-> alt] :
        c \in Configs, cors \in BOOLEAN, alt \in BOOLEAN}

\* BulkHandlers(prefix, EnableCORS): &handlers{EnableCORS: EnableCORS}, both
\* counter pointers left nil
BulkHandlers(cors) == [EnableCORS |-> cors, counting |-> FALSE]

\* CountingBulkHandlers(prefix, EnableCORS, &BytesServed, &BytesReceived)
CountingBulkHandlers(cors) == [EnableCORS |-> cors, counting |-> TRUE]

Init ==
    /\ m \in Servers
    /\ h = CountingBulkHandlers(m.EnableCORS)
    /\ BytesServed = 0
    /\ BytesReceived = 0
    /\ once = "fresh"
    /\ generatedConfig = ""
    /\ builds = 0
    /\ logs = <<>>
    /\ blackHolePool = 0
    /\ pc = [p \in Procs |-> "idle"]
    /\ req = [p \in Procs |-> NoRequest]
    /\ n = [p \in Procs |-> 0]
    /\ err = [p \in Procs |-> nil]
    /\ bufp = [p \in Procs |-> FALSE]
    /\ resp = [p \in Procs |-> NoResponse]
    /\ reads = [p \in Procs |-> <<>>]
    /\ classify = [wraps |-> 0, result |-> "unset"]
    /\ stats = [pc |-> "off", x |-> 0, y |-> 0,
                lastBytesServed |-> 0, lastBytesReceived |-> 0]

\* the handlers built by either constructor
InitBulk ==
    /\ m \in Servers
    /\ h \in {BulkHandlers(m.EnableCORS), CountingBulkHandlers(m.EnableCORS)}
    /\ BytesServed = 0
    /\ BytesReceived = 0
    /\ once = "fresh"
    /\ generatedConfig = ""
    /\ builds = 0
    /\ logs = <<>>
    /\ blackHolePool = 0
    /\ pc = [p \in Procs |-> "idle"]
    /\ req = [p \in Procs |-> NoRequest]
    /\ n = [p \in Procs |-> 0]
    /\ err = [p \in Procs |-> nil]
    /\ bufp = [p \in Procs |-> FALSE]
    /\ resp = [p \in Procs |-> NoResponse]
    /\ reads = [p \in Procs |-> <<>>]
    /\ classify = [wraps |-> 0, result |-> "unset"]
    /\ stats = [pc |-> "off", x |-> 0, y |-> 0,
                lastBytesServed |-> 0, lastBytesReceived |-> 0]

(***************************************************************************)
(* The ResponseWriter.                                                     *)
(***************************************************************************)
\* w.WriteHeader(code): the first status written is the one sent, with the
\* header as it is then (sent); what is set on the header later is not sent
WriteHeader(w, code) ==
    IF w.status = 0 THEN [w EXCEPT !.status = code, !.sent = w.header] ELSE w

\* a w.Write(buffed[:k]) that returned without error
WriteOk(w, k) ==
    [w EXCEPT !.writes = Append(@, k), !.attempts = @ + 1]

\* a w.Write that returned an error
WriteFailed(w) == [w EXCEPT !.attempts = @ + 1]

(***************************************************************************)
(* handlers.chunkedBodyWriter(w, contentLength)                            *)
(***************************************************************************)
\* the status written before the handler's header is in place
CBWEnterHeaderLate(p, w, contentLength) ==
    /\ resp' = [resp EXCEPT ![p] =
                   [WriteHeader([w EXCEPT !.header = <<>>], StatusOK)
                        EXCEPT !.header = w.header]]
    /\ n' = [n EXCEPT ![p] = contentLength]
    /\ err' = [err EXCEPT ![p] = nil]
    /\ pc' = [pc EXCEPT ![p] = "cbw_loop"]

\* entry: w.WriteHeader(http.StatusOK); n := contentLength
CBWEnter(p, w, contentLength) ==
    /\ resp' = [resp EXCEPT ![p] = WriteHeader(w, StatusOK)]
    /\ n' = [n EXCEPT ![p] = contentLength]
    /\ err' = [err EXCEPT ![p] = nil]
    /\ pc' = [pc EXCEPT ![p] = "cbw_loop"]

\* the loop written as "for n >= chunkSize": the remainder is never sent
CBWLoopDropsRest(p) ==
    /\ pc[p] = "cbw_loop"
    /\ IF n[p] >= chunkSize
       THEN /\ n' = [n EXCEPT ![p] = @ - chunkSize]
            /\ BytesServed' = AtomicAddUint64(BytesServed, chunkSize)
            /\ pc' = [pc EXCEPT ![p] = "cbw_write_chunk"]
            /\ UNCHANGED err
       ELSE /\ err' = [err EXCEPT ![p] = nil]
            /\ pc' = [pc EXCEPT ![p] = "cbw_ret"]
            /\ UNCHANGED <<n, BytesServed>>
    /\ UNCHANGED <<aux, h, server, logs, upload, req, resp>>

\* the loop without "n -= chunkSize"
CBWLoopKeepsN(p) ==
    /\ pc[p] = "cbw_loop"
    /\ IF n[p] > 0
       THEN IF n[p] >= chunkSize
            THEN /\ BytesServed' = AtomicAddUint64(BytesServed, chunkSize)
                 /\ pc' = [pc EXCEPT ![p] = "cbw_write_chunk"]
                 /\ UNCHANGED <<n, err>>
            ELSE /\ BytesServed' = AtomicAddUint64(BytesServed, n[p])
                 /\ pc' = [pc EXCEPT ![p] = "cbw_write_rest"]
                 /\ UNCHANGED <<n, err>>
       ELSE /\ err' = [err EXCEPT ![p] = nil]
            /\ pc' = [pc EXCEPT ![p] = "cbw_ret"]
            /\ UNCHANGED <<n, BytesServed>>
    /\ UNCHANGED <<aux, h, server, logs, upload, req, resp>>

\* for n > 0 { if n >= chunkSize { n -= chunkSize; atomic.AddUint64(...) ...
\* } atomic.AddUint64(h.BytesServed, uint64(n)) ... }: from the loop test to
\* the atomic add that precedes the Write
CBWLoop(p) ==
    /\ pc[p] = "cbw_loop"
    /\ IF n[p] > 0
       THEN IF ~h.counting
            THEN \* h.BytesServed is nil: the atomic add faults
                 /\ pc' = [pc EXCEPT ![p] = "panic"]
                 /\ UNCHANGED <<n, BytesServed, err>>
            ELSE IF n[p] >= chunkSize
            THEN /\ n' = [n EXCEPT ![p] = @ - chunkSize]
                 /\ BytesServed' = AtomicAddUint64(BytesServed, chunkSize)
                 /\ pc' = [pc EXCEPT ![p] = "cbw_write_chunk"]
                 /\ UNCHANGED err
            ELSE /\ BytesServed' = AtomicAddUint64(BytesServed, n[p])
                 /\ pc' = [pc EXCEPT ![p] = "cbw_write_rest"]
                 /\ UNCHANGED <<n, err>>
       ELSE \* return nil
            /\ err' = [err EXCEPT ![p] = nil]
            /\ pc' = [pc EXCEPT ![p] = "cbw_ret"]
            /\ UNCHANGED <<n, BytesServed>>
    /\ UNCHANGED <<aux, h, server, logs, upload, req, resp>>

\* the error of a chunk's Write dropped, and the loop carried on
CBWWriteChunkIgnoresError(p) ==
    /\ pc[p] = "cbw_write_chunk"
    /\ \E e \in {nil} \cup WriteErrors :
          resp' = [resp EXCEPT ![p] =
                      IF e = nil THEN WriteOk(@, chunkSize)
                      ELSE WriteFailed(@)]
    /\ pc' = [pc EXCEPT ![p] = "cbw_loop"]
    /\ UNCHANGED <<aux, h, server, BytesServed, logs, upload, req, n, err>>

\* if _, err := w.Write(buffed); err != nil { return err }; continue
CBWWriteChunk(p) ==
    /\ pc[p] = "cbw_write_chunk"
    /\ \E e \in {nil} \cup WriteErrors :
          IF e = nil
          THEN /\ resp' = [resp EXCEPT ![p] = WriteOk(@, chunkSize)]
               /\ pc' = [pc EXCEPT ![p] = "cbw_loop"]
               /\ UNCHANGED err
          ELSE /\ resp' = [resp EXCEPT ![p] = WriteFailed(@)]
               /\ err' = [err EXCEPT ![p] = e]
               /\ pc' = [pc EXCEPT ![p] = "cbw_ret"]
    /\ UNCHANGED <<aux, h, server, BytesServed, logs, upload, req, n>>

\* if _, err := w.Write(buffed[:n]); err != nil { return err }; break;
\* return nil
CBWWriteRest(p) ==
    /\ pc[p] = "cbw_write_rest"
    /\ \E e \in {nil} \cup WriteErrors :
          /\ resp' = [resp EXCEPT ![p] =
                         IF e = nil THEN WriteOk(@, n[p]) ELSE WriteFailed(@)]
          /\ err' = [err EXCEPT ![p] = e]
          /\ pc' = [pc EXCEPT ![p] = "cbw_ret"]
    /\ UNCHANGED <<aux, h, server, BytesServed, logs, upload, req, n>>

chunkedBodyWriter(p) == CBWLoop(p) \/ CBWWriteChunk(p) \/ CBWWriteRest(p)

(***************************************************************************)
(* A direct call h.chunkedBodyWriter(w, N) on a fresh ResponseWriter, for  *)
(* any length N, as a caller inside the package makes it.                  *)
(***************************************************************************)
Lengths ==
    {c * chunkSize + r : c \in 0..MaxChunks, r \in {0, 1, chunkSize - 1}}

CallChunkedBodyWriter(p) ==
    /\ pc[p] = "idle"
    /\ \E N \in Lengths :
          /\ req' = [req EXCEPT ![p] =
                        [path |-> "chunkedBodyWriter", method |-> "",
                         contentLength |-> N]]
          /\ CBWEnter(p, resp[p], N)
    /\ UNCHANGED <<aux, h, server, BytesServed, logs, upload>>

ReturnFromChunkedBodyWriter(p) ==
    /\ pc[p] = "cbw_ret"
    /\ req[p].path = "chunkedBodyWriter"
    /\ pc' = [pc EXCEPT ![p] = "done"]
    /\ UNCHANGED <<aux, h, server, BytesServed, logs, upload, req, n, err, resp>>

(***************************************************************************)
(* log.Printf(format, args...): the entry keeps the rendered text and the  *)
(* rendered arguments.                                                     *)
(***************************************************************************)
\* log.Printf("Error writing content of length %d: %s", length, err)
WriteErrorEntry(length, e) ==
    [text |-> "Error writing content of length " \o FormatInt(length)
                  \o ": " \o e.text,
     args |-> <<FormatInt(length), e.text>>]

\* log.Printf("could not write response: %s", err)
ConfigErrorEntry(e) ==
    [text |-> "could not write response: " \o e.text,
     args |-> <<e.text>>]

(***************************************************************************)
(* handlers.smallHandler                                                   *)
(***************************************************************************)
\* the Content-Length and Content-Type both download handlers set
DownloadHeader(hd, contentLength, cors) ==
    LET base ==
            HeaderSet(HeaderSet(hd, "Content-Length", FormatInt(contentLength)),
                      "Content-Type", "application/octet-stream")
    IN  IF cors THEN setCors(base) ELSE base

\* a check that turns away POST alone
DownloadMethodNotPost(method) == method # "POST"

\* r.Method != http.MethodGet && r.Method != http.MethodHead, negated
DownloadMethodAllowed(method) == method = MethodGet \/ method = MethodHead

\* from the method check to the call of chunkedBodyWriter
smallHandler(p) ==
    /\ pc[p] = "idle"
    /\ \E method \in Methods :
          /\ req' = [req EXCEPT ![p] =
                        [path |-> "/small", method |-> method,
                         contentLength |-> smallContentLength]]
          /\ IF ~DownloadMethodAllowed(method)
             THEN /\ resp' = [resp EXCEPT ![p] =
                                 WriteHeader(@, StatusMethodNotAllowed)]
                  /\ pc' = [pc EXCEPT ![p] = "done"]
                  /\ UNCHANGED <<n, err>>
             ELSE CBWEnter(p,
                           [resp[p] EXCEPT !.header =
                               DownloadHeader(@, smallContentLength,
                                              h.EnableCORS)],
                           smallContentLength)
    /\ UNCHANGED <<aux, h, server, BytesServed, logs, upload>>

\* if err := h.chunkedBodyWriter(...); !ignorableError(err) { log.Printf }
smallHandlerReturn(p) ==
    /\ pc[p] = "cbw_ret"
    /\ req[p].path = "/small"
    /\ logs' = IF ~ignorableError(err[p])
               THEN Append(logs, WriteErrorEntry(smallContentLength, err[p]))
               ELSE logs
    /\ pc' = [pc EXCEPT ![p] = "done"]
    /\ UNCHANGED <<aux, h, server, BytesServed, upload, req, n, err, resp>>

(***************************************************************************)
(* handlers.largeHandler                                                   *)
(***************************************************************************)
largeHandler(p) ==
    /\ pc[p] = "idle"
    /\ \E method \in Methods :
          /\ req' = [req EXCEPT ![p] =
                        [path |-> "/large", method |-> method,
                         contentLength |-> largeContentLength]]
          /\ IF ~DownloadMethodAllowed(method)
             THEN /\ resp' = [resp EXCEPT ![p] =
                                 WriteHeader(@, StatusMethodNotAllowed)]
                  /\ pc' = [pc EXCEPT ![p] = "done"]
                  /\ UNCHANGED <<n, err>>
             ELSE IF method # MethodGet
             THEN /\ resp' = [resp EXCEPT ![p].header =
                                 DownloadHeader(@, largeContentLength,
                                                h.EnableCORS)]
                  /\ pc' = [pc EXCEPT ![p] = "done"]
                  /\ UNCHANGED <<n, err>>
             ELSE CBWEnter(p,
                           [resp[p] EXCEPT !.header =
                               DownloadHeader(@, largeContentLength,
                                              h.EnableCORS)],
                           largeContentLength)
    /\ UNCHANGED <<aux, h, server, BytesServed, logs, upload>>

largeHandlerReturn(p) ==
    /\ pc[p] = "cbw_ret"
    /\ req[p].path = "/large"
    /\ logs' = IF ~ignorableError(err[p])
               THEN Append(logs, WriteErrorEntry(largeContentLength, err[p]))
               ELSE logs
    /\ pc' = [pc EXCEPT ![p] = "done"]
    /\ UNCHANGED <<aux, h, server, BytesServed, upload, req, n, err, resp>>

(***************************************************************************)
(* countingDiscard.ReadFrom, as io.Copy calls it on the request body       *)
(***************************************************************************)
\* the lengths a Read into the scratch buffer can return
ReadSizes == {0, 1, blackHoleSize}

\* the error checked before the bytes of that read are counted
ReadFromReadChecksFirst(p) ==
    /\ pc[p] = "rf_read"
    /\ \E readSize \in ReadSizes, e \in {nil} \cup ReadErrors :
          /\ e = nil => Len(reads[p]) < MaxReads
          /\ reads' = [reads EXCEPT ![p] =
                          Append(@, [size |-> readSize, err |-> e])]
          /\ err' = [err EXCEPT ![p] = e]
          /\ IF e # nil
             THEN /\ pc' = [pc EXCEPT ![p] = "rf_put"]
                  /\ UNCHANGED <<n, BytesReceived>>
             ELSE /\ n' = [n EXCEPT ![p] = @ + readSize]
                  /\ BytesReceived' = AtomicAddUint64(BytesReceived, readSize)
                  /\ UNCHANGED pc
    /\ UNCHANGED <<aux, h, server, BytesServed, logs, blackHolePool, bufp, req,
                   resp>>

\* readSize, err = r.Read(*bufp); n += int64(readSize);
\* atomic.AddUint64(cb.byteCounter, uint64(readSize)); if err != nil ...
\* for a body whose reads return a length of sizes and nil or an error of errs
ReadFromReadOf(p, sizes, errs) ==
    /\ pc[p] = "rf_read"
    /\ \E readSize \in sizes, e \in {nil} \cup errs :
          /\ e = nil => Len(reads[p]) < MaxReads
          /\ reads' = [reads EXCEPT ![p] =
                          Append(@, [size |-> readSize, err |-> e])]
          /\ IF ~h.counting
             THEN \* cb.byteCounter is nil: the atomic add faults
                  /\ pc' = [pc EXCEPT ![p] = "panic"]
                  /\ n' = [n EXCEPT ![p] = @ + readSize]
                  /\ UNCHANGED <<BytesReceived, err>>
             ELSE /\ n' = [n EXCEPT ![p] = @ + readSize]
                  /\ BytesReceived' = AtomicAddUint64(BytesReceived, readSize)
                  /\ err' = [err EXCEPT ![p] = e]
                  /\ pc' = [pc EXCEPT ![p] =
                               IF e # nil THEN "rf_put" ELSE "rf_read"]
    /\ UNCHANGED <<aux, h, server, BytesServed, logs, blackHolePool, bufp, req,
                   resp>>

\* an empty read taken for the end of the stream
ReadFromReadStopsOnEmpty(p) ==
    /\ pc[p] = "rf_read"
    /\ \E readSize \in ReadSizes, e \in {nil} \cup ReadErrors :
          /\ e = nil => Len(reads[p]) < MaxReads
          /\ reads' = [reads EXCEPT ![p] =
                          Append(@, [size |-> readSize, err |-> e])]
          /\ n' = [n EXCEPT ![p] = @ + readSize]
          /\ BytesReceived' = AtomicAddUint64(BytesReceived, readSize)
          /\ err' = [err EXCEPT ![p] =
                        IF e = nil /\ readSize = 0 THEN EOF ELSE e]
          /\ pc' = [pc EXCEPT ![p] =
                       IF e # nil \/ readSize = 0 THEN "rf_put"
                       ELSE "rf_read"]
    /\ UNCHANGED <<aux, h, server, BytesServed, logs, blackHolePool, bufp, req,
                   resp>>

\* a body that returns any length of ReadSizes and any error of ReadErrors
ReadFromRead(p) == ReadFromReadOf(p, ReadSizes, ReadErrors)

\* the buffer returned to the pool at end-of-stream only
ReadFromPutOnEOF(p) ==
    /\ pc[p] = "rf_put"
    /\ blackHolePool' = IF err[p] = EOF THEN blackHolePool + 1
                        ELSE blackHolePool
    /\ bufp' = [bufp EXCEPT ![p] = IF err[p] = EOF THEN FALSE ELSE @]
    /\ err' = [err EXCEPT ![p] = IF @ = EOF THEN nil ELSE @]
    /\ pc' = [pc EXCEPT ![p] = "copy_ret"]
    /\ UNCHANGED <<aux, h, server, BytesServed, BytesReceived, logs, reads, req,
                   n, resp>>

\* every error of the body returned as success, not io.EOF alone
ReadFromPutSwallows(p) ==
    /\ pc[p] = "rf_put"
    /\ blackHolePool' = blackHolePool + 1
    /\ bufp' = [bufp EXCEPT ![p] = FALSE]
    /\ err' = [err EXCEPT ![p] = nil]
    /\ pc' = [pc EXCEPT ![p] = "copy_ret"]
    /\ UNCHANGED <<aux, h, server, BytesServed, BytesReceived, logs, reads, req,
                   n, resp>>

\* blackHolePool.Put(bufp); if err == io.EOF { return n, nil }; return
ReadFromPut(p) ==
    /\ pc[p] = "rf_put"
    /\ blackHolePool' = blackHolePool + 1
    /\ bufp' = [bufp EXCEPT ![p] = FALSE]
    /\ err' = [err EXCEPT ![p] = IF @ = EOF THEN nil ELSE @]
    /\ pc' = [pc EXCEPT ![p] = "copy_ret"]
    /\ UNCHANGED <<aux, h, server, BytesServed, BytesReceived, logs, reads, req,
                   n, resp>>

ReadFrom(p) == ReadFromRead(p) \/ ReadFromPut(p)

(***************************************************************************)
(* countingDiscard.Write and countingDiscard.WriteString, which io.Copy    *)
(* and io.WriteString call on a destination when the source writes itself  *)
(***************************************************************************)
\* len(p), len(s)
DiscardLens == {0, 1, blackHoleSize}

\* x := len(p); return x, nil
DiscardWrite(p) ==
    /\ pc[p] = "idle"
    /\ \E x \in DiscardLens :
          /\ req' = [req EXCEPT ![p] =
                        [path |-> "countingDiscard.Write", method |-> "",
                         contentLength |-> x]]
          /\ n' = [n EXCEPT ![p] = x]
    /\ err' = [err EXCEPT ![p] = nil]
    /\ pc' = [pc EXCEPT ![p] = "done"]
    /\ UNCHANGED <<aux, h, server, BytesServed, logs, upload, resp>>

\* x := len(s); return x, nil
DiscardWriteString(p) ==
    /\ pc[p] = "idle"
    /\ \E x \in DiscardLens :
          /\ req' = [req EXCEPT ![p] =
                        [path |-> "countingDiscard.WriteString", method |-> "",
                         contentLength |-> x]]
          /\ n' = [n EXCEPT ![p] = x]
    /\ err' = [err EXCEPT ![p] = nil]
    /\ pc' = [pc EXCEPT ![p] = "done"]
    /\ UNCHANGED <<aux, h, server, BytesServed, logs, upload, resp>>

(***************************************************************************)
(* handlers.slurpHandler                                                   *)
(***************************************************************************)
\* http.Error(w, error, code)
HttpError(w, text, code) ==
    LET hd == HeaderSet(HeaderSet(w.header, "Content-Type",
                                  "text/plain; charset=utf-8"),
                        "X-Content-Type-Options", "nosniff")
    IN  [WriteHeader([w EXCEPT !.header = hd], code) EXCEPT
            !.body = @ \o text \o "\n"]

\* from the entry to io.Copy's call of ReadFrom, which takes a scratch
\* buffer from the pool (a pooled one if there is one, else a new one)
slurpHandlerOf(p, methods) ==
    /\ pc[p] = "idle"
    /\ \E method \in methods :
          req' = [req EXCEPT ![p] =
                     [path |-> "/slurp", method |-> method,
                      contentLength |-> 0]]
    /\ resp' = [resp EXCEPT ![p].header =
                   LET base == setNoPublicCache(
                                   HeaderSet(@, "Content-Type",
                                             "application/octet-stream"))
                   IN  IF h.EnableCORS THEN setCors(base) ELSE base]
    /\ blackHolePool' = IF blackHolePool > 0 THEN blackHolePool - 1 ELSE 0
    /\ bufp' = [bufp EXCEPT ![p] = TRUE]
    /\ n' = [n EXCEPT ![p] = 0]
    /\ err' = [err EXCEPT ![p] = nil]
    /\ pc' = [pc EXCEPT ![p] = "rf_read"]
    /\ UNCHANGED <<aux, h, server, BytesServed, BytesReceived, logs, reads>>

\* the handler is registered for every method
slurpHandler(p) == slurpHandlerOf(p, Methods)

\* if err != nil { http.Error(...); return }; w.WriteHeader(http.StatusOK)
slurpHandlerReturn(p) ==
    /\ pc[p] = "copy_ret"
    /\ resp' = [resp EXCEPT ![p] =
                   IF err[p] # nil
                   THEN HttpError(@, err[p].text, StatusBadRequest)
                   ELSE WriteHeader(@, StatusOK)]
    /\ pc' = [pc EXCEPT ![p] = "done"]
    /\ UNCHANGED <<aux, h, server, BytesServed, logs, upload, req, n, err>>

(***************************************************************************)
(* Server.generateConfig and Server.ConfigHandler                          *)
(***************************************************************************)
generateSmallDownloadURL(s) ==
    s.Scheme \o "://" \o s.PublicHostPort \o s.ContextPath \o "/small"
generateLargeDownloadURL(s) ==
    s.Scheme \o "://" \o s.PublicHostPort \o s.ContextPath \o "/large"
generateUploadURL(s) ==
    s.Scheme \o "://" \o s.PublicHostPort \o s.ContextPath \o "/slurp"

\* one "key": "value" line of the urls object, at indent 8
JsonField(key, value, last) ==
    "        \"" \o key \o "\": \"" \o value \o "\""
        \o (IF last THEN "\n" ELSE ",\n")

\* json.MarshalIndent(resp, "", "    ") of {version, urls}
MarshalConfig(s) ==
    "{\n    \"version\": 1,\n    \"urls\": {\n"
    \o JsonField("small_download_url", generateSmallDownloadURL(s), FALSE)
    \o JsonField("large_download_url", generateLargeDownloadURL(s), FALSE)
    \o JsonField("upload_url", generateUploadURL(s), FALSE)
    \o JsonField("small_https_download_url", generateSmallDownloadURL(s),
                 FALSE)
    \o JsonField("large_https_download_url", generateLargeDownloadURL(s),
                 FALSE)
    \o JsonField("https_upload_url", generateUploadURL(s), TRUE)
    \o "    }\n}"

\* the method check of ConfigHandler
ConfigHandler(p) ==
    /\ pc[p] = "idle"
    /\ \E method \in Methods :
          /\ req' = [req EXCEPT ![p] =
                        [path |-> "/config", method |-> method,
                         contentLength |-> 0]]
          /\ IF method # MethodGet
             THEN /\ resp' = [resp EXCEPT ![p] =
                                 WriteHeader(@, StatusMethodNotAllowed)]
                  /\ pc' = [pc EXCEPT ![p] = "done"]
             ELSE /\ pc' = [pc EXCEPT ![p] = "once_do"]
                  /\ UNCHANGED resp
    /\ UNCHANGED <<aux, h, server, BytesServed, logs, upload, n, err>>

\* a plain flag in place of the once: nobody waits for a running build
OnceBlocksNobody(o) == TRUE

\* whether a caller of once.Do may go on: the first runs f, the others wait
\* for the running f to return and then skip it
OnceMayPass(o) == o # "running"

\* m.once.Do(func() { m.generateConfig() }): entering Do
OnceDo(p) ==
    /\ pc[p] = "once_do"
    /\ OnceMayPass(once)
    /\ IF once = "done"
       THEN /\ pc' = [pc EXCEPT ![p] = "config_write"]
            /\ UNCHANGED once
       ELSE /\ once' = "running"
            /\ pc' = [pc EXCEPT ![p] = "generate"]
    /\ UNCHANGED <<aux, h, m, generatedConfig, builds, BytesServed, logs, upload,
                   req, n, err, resp>>

\* m.generateConfig(): m.generatedConfig = b
generateConfig(p) ==
    /\ pc[p] = "generate"
    /\ generatedConfig' = MarshalConfig(m)
    /\ builds' = builds + 1
    /\ pc' = [pc EXCEPT ![p] = "once_ret"]
    /\ UNCHANGED <<aux, h, m, once, BytesServed, logs, upload, req, n, err, resp>>

\* a once that never records that f has run
OnceReturnForgets(p) ==
    /\ pc[p] = "once_ret"
    /\ once' = "fresh"
    /\ pc' = [pc EXCEPT ![p] = "config_write"]
    /\ UNCHANGED <<aux, h, m, generatedConfig, builds, BytesServed, logs, upload,
                   req, n, err, resp>>

\* f has returned: Do marks the once done and lets the waiting callers go
OnceReturn(p) ==
    /\ pc[p] = "once_ret"
    /\ once' = "done"
    /\ pc' = [pc EXCEPT ![p] = "config_write"]
    /\ UNCHANGED <<aux, h, m, generatedConfig, builds, BytesServed, logs, upload,
                   req, n, err, resp>>

\* the headers of the discovery response
ConfigHeader(hd, s) ==
    LET ct == HeaderSet(hd, "Content-Type", "application/json")
        alt == IF s.EnableH3AltSvc
               THEN HeaderSet(ct, "Alt-Svc",
                              "h3=\":" \o FormatInt(s.PublicPort) \o "\"")
               ELSE ct
    IN  IF s.EnableCORS THEN setCors(alt) ELSE alt

\* a first w.Write(data) sends the status 200 itself
WriteBody(w, data, ok) ==
    [WriteHeader(w, StatusOK) EXCEPT
        !.attempts = @ + 1,
        !.body = IF ok THEN @ \o data ELSE @]

\* the headers; _, err := w.Write(m.generatedConfig); if err != nil { log }
ConfigWrite(p) ==
    /\ pc[p] = "config_write"
    /\ \E e \in {nil} \cup WriteErrors :
          /\ resp' = [resp EXCEPT ![p] =
                         WriteBody([@ EXCEPT !.header = ConfigHeader(@, m)],
                                   generatedConfig, e = nil)]
          /\ err' = [err EXCEPT ![p] = e]
          /\ logs' = IF e # nil THEN Append(logs, ConfigErrorEntry(e))
                     ELSE logs
    /\ pc' = [pc EXCEPT ![p] = "done"]
    /\ UNCHANGED <<aux, h, server, BytesServed, upload, req, n>>

\* the owner of the Server assigns Scheme, PublicHostPort and ContextPath
\* (exported fields) while no build is running
SetServerFields ==
    /\ once # "running"
    /\ \E c \in Configs :
          /\ c.Scheme # m.Scheme
          /\ m' = [m EXCEPT !.Scheme = c.Scheme,
                            !.PublicHostPort = c.PublicHostPort,
                            !.ContextPath = c.ContextPath]
    /\ UNCHANGED <<aux, h, once, generatedConfig, builds, BytesServed, logs,
                   upload, pc, req, n, err, resp>>

(***************************************************************************)
(* ignorableError called on its own: a caller holds some error, may wrap   *)
(* it, and asks whether it is ignorable.                                   *)
(***************************************************************************)
ClassifiedErrors ==
    {nil, EOF, UnexpectedEOF, Timeout, EPIPE, ECONNRESET, OpErrorEPIPE,
     OpErrorECONNRESET, ClientDisconnected, TextBrokenPipe,
     TextClientDisconnected}

WrapPrefixes == {"write", "slurp"}

HoldError(p) ==
    /\ pc[p] = "idle"
    /\ \E e \in ClassifiedErrors : err' = [err EXCEPT ![p] = e]
    /\ req' = [req EXCEPT ![p] = [@ EXCEPT !.path = "ignorableError"]]
    /\ pc' = [pc EXCEPT ![p] = "hold_err"]
    /\ UNCHANGED <<aux, h, server, BytesServed, logs, upload, n, resp>>

WrapError(p) ==
    /\ pc[p] = "hold_err"
    /\ err[p] # nil
    /\ classify.wraps < MaxWrap
    /\ \E prefix \in WrapPrefixes :
           err' = [err EXCEPT ![p] = Wrap(@, prefix)]
    /\ classify' = [classify EXCEPT !.wraps = @ + 1]
    /\ UNCHANGED <<stats, h, server, BytesServed, logs, upload, pc, req, n,
                   resp>>

CallIgnorableError(p) ==
    /\ pc[p] = "hold_err"
    /\ classify' = [classify EXCEPT
                       !.result = IF ignorableError(err[p]) THEN "ignorable"
                                  ELSE "report"]
    /\ pc' = [pc EXCEPT ![p] = "done"]
    /\ UNCHANGED <<stats, h, server, BytesServed, logs, upload, req, n, err,
                   resp>>

(***************************************************************************)
(* Server.PrintStats, the goroutine that reports the throughput            *)
(***************************************************************************)
\* fmt.Sprintf("%0.2f", float64(delta) / 1 / float64(1024*1024) * 8): the
\* quotient delta / 131072 is exact in a float64, and %0.2f rounds it to
\* hundredths, a tie to the even one
FormatMbps(delta) ==
    LET den == (1024 * 1024) \div 8
        q == (delta * 100) \div den
        r == (delta * 100) % den
        hundredths == IF 2 * r > den \/ (2 * r = den /\ q % 2 = 1)
                      THEN q + 1 ELSE q
    IN  FormatNat(hundredths \div 100) \o "."
            \o Digit[((hundredths \div 10) % 10) + 1]
            \o Digit[(hundredths % 10) + 1]

\* the msg of one iteration, from the samples and the values last reported
StatsMsg(x, y, lastServed, lastReceived) ==
    LET sent == IF x > lastServed
                THEN "Sent: " \o FormatMbps(x - lastServed) \o "Mbps"
                ELSE ""
        sep == IF y > lastReceived /\ sent # "" THEN " " ELSE ""
        received == IF y > lastReceived
                    THEN "Received: " \o FormatMbps(y - lastReceived)
                             \o "Mbps"
                    ELSE ""
    IN  sent \o sep \o received

\* log.Printf("%s", msg)
StatsEntry(msg) == [text |-> msg, args |-> <<msg>>]

\* go m.PrintStats(): var lastBytesServed, lastBytesReceived uint64
PrintStats ==
    /\ stats.pc = "off"
    /\ stats' = [stats EXCEPT !.pc = "load_x", !.lastBytesServed = 0,
                              !.lastBytesReceived = 0]
    /\ UNCHANGED <<classify, h, server, BytesServed, logs, upload, pc, req, n,
                   err, resp>>

\* the sample taken with a swap that zeroes the counter
PrintStatsLoadXSwaps ==
    /\ stats.pc = "load_x"
    /\ stats' = [stats EXCEPT !.pc = "load_y", !.x = BytesServed]
    /\ BytesServed' = 0
    /\ UNCHANGED <<classify, h, server, logs, upload, pc, req, n, err, resp>>

\* x := atomic.LoadUint64(&m.BytesServed)
PrintStatsLoadX ==
    /\ stats.pc = "load_x"
    /\ stats' = [stats EXCEPT !.pc = "load_y", !.x = BytesServed]
    /\ UNCHANGED <<classify, h, server, BytesServed, logs, upload, pc, req, n,
                   err, resp>>

\* y := atomic.LoadUint64(&m.BytesReceived)
PrintStatsLoadY ==
    /\ stats.pc = "load_y"
    /\ stats' = [stats EXCEPT !.pc = "report", !.y = BytesReceived]
    /\ UNCHANGED <<classify, h, server, BytesServed, logs, upload, pc, req, n,
                   err, resp>>

\* a report made whether or not a counter advanced
PrintStatsReportAlways ==
    /\ stats.pc = "report"
    /\ logs' = Append(logs, StatsEntry(StatsMsg(stats.x, stats.y,
                                                stats.lastBytesServed,
                                                stats.lastBytesReceived)))
    /\ stats' = [stats EXCEPT
                    !.pc = "sleep", !.x = 0, !.y = 0,
                    !.lastBytesServed = IF stats.x > @ THEN stats.x ELSE @,
                    !.lastBytesReceived = IF stats.y > @ THEN stats.y ELSE @]
    /\ UNCHANGED <<classify, h, server, BytesServed, upload, pc, req, n, err,
                   resp>>

\* the two comparisons, the message and log.Printf if it is not empty; x and
\* y end with the iteration
PrintStatsReport ==
    /\ stats.pc = "report"
    /\ LET msg == StatsMsg(stats.x, stats.y, stats.lastBytesServed,
                           stats.lastBytesReceived)
       IN  logs' = IF msg # "" THEN Append(logs, StatsEntry(msg)) ELSE logs
    /\ stats' = [stats EXCEPT
                    !.pc = "sleep", !.x = 0, !.y = 0,
                    !.lastBytesServed = IF stats.x > @ THEN stats.x ELSE @,
                    !.lastBytesReceived = IF stats.y > @ THEN stats.y ELSE @]
    /\ UNCHANGED <<classify, h, server, BytesServed, upload, pc, req, n, err,
                   resp>>

\* time.Sleep(1 * time.Second), and the loop starts over
PrintStatsSleep ==
    /\ stats.pc = "sleep"
    /\ stats' = [stats EXCEPT !.pc = "load_x"]
    /\ UNCHANGED <<classify, h, server, BytesServed, logs, upload, pc, req, n,
                   err, resp>>

\* one step of the loop of PrintStats
PrintStatsLoop ==
    \/ PrintStatsLoadX
    \/ PrintStatsLoadY
    \/ PrintStatsReport
    \/ PrintStatsSleep

(***************************************************************************)
(* Specifications.                                                         *)
(***************************************************************************)
\* one request, to any endpoint with any method
Next ==
    \/ smallHandler(1)
    \/ smallHandlerReturn(1)
    \/ largeHandler(1)
    \/ largeHandlerReturn(1)
    \/ chunkedBodyWriter(1)
    \/ slurpHandler(1)
    \/ ReadFrom(1)
    \/ slurpHandlerReturn(1)
    \/ ConfigHandler(1)
    \/ OnceDo(1)
    \/ generateConfig(1)
    \/ OnceReturn(1)
    \/ ConfigWrite(1)

Spec == Init /\ [][Next]_vars

\* one direct call of chunkedBodyWriter with any length of Lengths
NextCBW ==
    \/ CallChunkedBodyWriter(1)
    \/ chunkedBodyWriter(1)
    \/ ReturnFromChunkedBodyWriter(1)

SpecCBW == Init /\ [][NextCBW]_vars

\* concurrent requests to /small (whose one byte never takes the whole-chunk
\* branch of chunkedBodyWriter)
NextSmall ==
    \E p \in Procs :
        \/ smallHandler(p)
        \/ CBWLoop(p)
        \/ CBWWriteRest(p)
        \/ smallHandlerReturn(p)

SpecSmall == Init /\ [][NextSmall]_vars

\* concurrent requests to the discovery endpoint of one Server
NextConfig ==
    \/ \E p \in Procs :
          \/ ConfigHandler(p)
          \/ OnceDo(p)
          \/ generateConfig(p)
          \/ OnceReturn(p)
          \/ ConfigWrite(p)
    \/ SetServerFields

SpecConfig == Init /\ [][NextConfig]_vars

\* one call of ignorableError, on any error of ClassifiedErrors under at most
\* MaxWrap layers of wrapping
NextClassify ==
    \/ HoldError(1)
    \/ WrapError(1)
    \/ CallIgnorableError(1)

SpecClassify == Init /\ [][NextClassify]_vars

\* MaxProcs concurrent uploads: POSTs to /slurp whose bodies deliver one byte
\* a read and end with io.EOF or fail with a timeout
UploadSizes == {1}
UploadErrors == {EOF, Timeout}

NextUpload ==
    \E p \in Procs :
        \/ slurpHandlerOf(p, {"POST"})
        \/ ReadFromReadOf(p, UploadSizes, UploadErrors)
        \/ ReadFromPut(p)
        \/ slurpHandlerReturn(p)

SpecUpload == Init /\ [][NextUpload]_vars

\* a server constructed with one address, with CORS and without Alt-Svc:
\* what the counters and the reporter do depends on none of these
InitOneAddress ==
    /\ Init
    /\ m.Scheme = "https"
    /\ m.EnableCORS
    /\ ~m.EnableH3AltSvc

\* the reporter next to a request to /small and an upload.  The goroutine of
\* PrintStats is scheduled again and again and its Sleep returns: weak
\* fairness on the steps of its loop.
NextStats ==
    \/ smallHandler(1)
    \/ CBWLoop(1)
    \/ CBWWriteRest(1)
    \/ smallHandlerReturn(1)
    \/ slurpHandlerOf(2, {"POST"})
    \/ ReadFromReadOf(2, UploadSizes, UploadErrors)
    \/ ReadFromPut(2)
    \/ slurpHandlerReturn(2)
    \/ PrintStats
    \/ PrintStatsLoop

SpecStats ==
    InitOneAddress /\ [][NextStats]_vars /\ WF_vars(PrintStatsLoop)

\* everything the server runs at once: a request to a download endpoint or
\* to the discovery endpoint, with any method, an upload, and the reporter
NextAll ==
    \/ smallHandler(1)
    \/ smallHandlerReturn(1)
    \/ largeHandler(1)
    \/ largeHandlerReturn(1)
    \/ chunkedBodyWriter(1)
    \/ ConfigHandler(1)
    \/ OnceDo(1)
    \/ generateConfig(1)
    \/ OnceReturn(1)
    \/ ConfigWrite(1)
    \/ slurpHandlerOf(2, {"POST"})
    \/ ReadFromReadOf(2, UploadSizes, UploadErrors)
    \/ ReadFromPut(2)
    \/ slurpHandlerReturn(2)
    \/ PrintStats
    \/ PrintStatsLoop

SpecAll == InitOneAddress /\ [][NextAll]_vars

\* one transfer: a direct call of chunkedBodyWriter with any length of
\* Lengths, or an upload with any body
NextTransfer ==
    \/ CallChunkedBodyWriter(1)
    \/ chunkedBodyWriter(1)
    \/ ReturnFromChunkedBodyWriter(1)
    \/ slurpHandler(1)
    \/ ReadFrom(1)
    \/ slurpHandlerReturn(1)

SpecTransfer == Init /\ [][NextTransfer]_vars

\* one use of the discard sink through any of its three methods
NextSink ==
    \/ DiscardWrite(1)
    \/ DiscardWriteString(1)
    \/ slurpHandler(1)
    \/ ReadFrom(1)
    \/ slurpHandlerReturn(1)

SpecSink == Init /\ [][NextSink]_vars

\* one request, to any endpoint with any method, served by handlers of
\* BulkHandlers or of CountingBulkHandlers
SpecBulk == InitBulk /\ [][Next]_vars

(***************************************************************************)
(* Properties.                                                             *)
(***************************************************************************)
Last(s) == s[Len(s)]

\* the bytes a request body has delivered: the sum of its read lengths
RECURSIVE SumSizes(_)
SumSizes(s) == IF s = <<>> THEN 0 ELSE Head(s).size + SumSizes(Tail(s))

\* floor(N/chunkSize) whole chunks, then the remainder if there is one
ExpectedWrites(N) ==
    [i \in 1..(N \div chunkSize) |-> chunkSize]
        \o (IF N % chunkSize # 0 THEN <<N % chunkSize>> ELSE <<>>)

Download(p) == req[p].path \in {"/small", "/large"}

\* C1: a run of chunkedBodyWriter(w, N) in which every write succeeds has
\* issued floor(N/chunkSize) writes of chunkSize bytes followed by one write
\* of N mod chunkSize bytes exactly when that is not 0; the bytes written sum
\* to N and the served counter has advanced by N when the run returns.
C1_ExactChunks ==
    (pc[1] = "done" /\ req[1].path = "chunkedBodyWriter" /\ err[1] = nil) =>
        LET N == req[1].contentLength
        IN  /\ resp[1].writes = ExpectedWrites(N)
            /\ resp[1].attempts = Len(resp[1].writes)
            /\ SumSeq(resp[1].writes) = N
            /\ BytesServed = N

\* a successful run over two whole chunks and a remainder
C1_Witness ==
    /\ pc[1] = "done"
    /\ req[1].path = "chunkedBodyWriter"
    /\ err[1] = nil
    /\ req[1].contentLength = 2 * chunkSize + 1
    /\ resp[1].writes = <<chunkSize, chunkSize, 1>>

\* C2: a HEAD request to /small or /large sets the Content-Length and the
\* Content-Type a GET sets, performs no body write and leaves the served
\* counter unchanged.
C2_HeadWritesNothing ==
    (pc[1] = "done" /\ Download(1) /\ req[1].method = MethodHead) =>
        /\ resp[1].header["Content-Length"] = FormatInt(req[1].contentLength)
        /\ resp[1].header["Content-Type"] = "application/octet-stream"
        /\ resp[1].attempts = 0
        /\ resp[1].writes = <<>>
        /\ BytesServed = 0

\* C3: what a run of chunkedBodyWriter has added to the served counter is no
\* more than the bytes of its writes that returned without error, also once
\* a write has failed and the run has returned: a chunk whose write failed
\* is not counted.
C3_CountsOnlyAccepted ==
    (pc[1] = "done" /\ req[1].path = "chunkedBodyWriter") =>
        BytesServed <= SumSeq(resp[1].writes)

\* C4: when M concurrent GET /small requests have all returned with their
\* writes succeeded, the served counter is exactly M higher than at the
\* start (0), whatever the interleaving.
C4_NoLostIncrement ==
    (\A p \in Procs :
        /\ pc[p] \in {"idle", "done"}
        /\ pc[p] = "done" => (req[p].method = MethodGet /\ err[p] = nil))
    => BytesServed = Cardinality({p \in Procs : pc[p] = "done"})

\* every process has served a GET /small whose write succeeded
C4_Witness ==
    /\ Cardinality(Procs) >= 2
    /\ \A p \in Procs :
          /\ pc[p] = "done"
          /\ req[p].method = MethodGet
          /\ err[p] = nil
          /\ resp[p].writes = <<1>>

\* C5: under concurrent first GETs to ConfigHandler generateConfig runs at
\* most once, no request writes its body before that run has finished (and
\* then it has run exactly once), and all the requests write the same
\* document.
C5_BuiltExactlyOnce ==
    /\ builds <= 1
    /\ \A p \in Procs :
          resp[p].attempts > 0 => (once = "done" /\ builds = 1)
    /\ \A p, q \in Procs :
          (/\ pc[p] = "done" /\ req[p].method = MethodGet /\ err[p] = nil
           /\ pc[q] = "done" /\ req[q].method = MethodGet /\ err[q] = nil)
          => /\ resp[p].body = resp[q].body
             /\ resp[p].body = generatedConfig
             /\ resp[p].body # ""

\* every process has been answered the document, built once
C5_Witness ==
    /\ Cardinality(Procs) >= 2
    /\ builds = 1
    /\ \A p \in Procs :
          /\ pc[p] = "done"
          /\ req[p].method = MethodGet
          /\ err[p] = nil
          /\ resp[p].body = generatedConfig
          /\ resp[p].status = StatusOK

WrongMethod(p) ==
    \/ Download(p)
       /\ req[p].method # MethodGet
       /\ req[p].method # MethodHead
    \/ req[p].path = "/config" /\ req[p].method # MethodGet

\* C7: a request to /small or /large that is neither GET nor HEAD, and a
\* request to the discovery endpoint that is not GET, is answered 405 with
\* no body written, and neither counter changes.
C7_MethodNotAllowed ==
    WrongMethod(1) =>
        /\ pc[1] = "done"
        /\ resp[1].status = StatusMethodNotAllowed
        /\ resp[1].attempts = 0
        /\ resp[1].writes = <<>>
        /\ resp[1].body = ""
        /\ BytesServed = 0
        /\ BytesReceived = 0

\* a DELETE to /large answered 405
C7_Witness ==
    /\ pc[1] = "done"
    /\ req[1].path = "/large"
    /\ req[1].method = "DELETE"
    /\ resp[1].status = StatusMethodNotAllowed

\* C8: once the document has been built it is never built again and never
\* changes, and every GET answered from then on is answered those bytes,
\* also when Scheme, PublicHostPort or ContextPath have been assigned since.
C8_CachedForever ==
    [][/\ builds >= 1 =>
             (builds' = builds /\ generatedConfig' = generatedConfig)
       /\ \A p \in Procs :
             (pc[p] = "config_write" /\ pc'[p] = "done" /\ err'[p] = nil)
             => (builds = 1 /\ resp'[p].body = generatedConfig)]_vars

\* two requests answered the cached document, which the fields as they are
\* now would no longer produce
C8_Witness ==
    /\ builds = 1
    /\ generatedConfig # MarshalConfig(m)
    /\ \A p \in Procs :
          /\ pc[p] = "done"
          /\ req[p].method = MethodGet
          /\ err[p] = nil
          /\ resp[p].body = generatedConfig

\* the body has failed a read with an error that is not end-of-stream
ReadFailed(p) ==
    /\ reads[p] # <<>>
    /\ Last(reads[p]).err # nil
    /\ Last(reads[p]).err # EOF

\* C9: when a read of the body fails with an error other than end-of-stream
\* slurpHandler answers 400 with the error text and never 200; the failing
\* read is the last one, and the received counter stays at the bytes the
\* body delivered up to and with it.
C9_ReadErrorIsBadRequest ==
    (req[1].path = "/slurp" /\ ReadFailed(1)) =>
        /\ resp[1].status # StatusOK
        /\ BytesReceived = SumSizes(reads[1])
        /\ \A i \in 1..(Len(reads[1]) - 1) : reads[1][i].err = nil
        /\ pc[1] = "done" =>
              /\ resp[1].status = StatusBadRequest
              /\ resp[1].body = Last(reads[1]).err.text \o "\n"

\* a read that succeeds, then one that fails while delivering a byte
C9_Witness ==
    /\ pc[1] = "done"
    /\ req[1].path = "/slurp"
    /\ Len(reads[1]) = 2
    /\ reads[1][1] = [size |-> blackHoleSize, err |-> nil]
    /\ reads[1][2] = [size |-> 1, err |-> Timeout]
    /\ BytesReceived = blackHoleSize + 1
    /\ resp[1].status = StatusBadRequest

\* the names a log entry could give the endpoint of request p
EndpointNames(p) ==
    IF req[p].path = "/small" THEN {"/small", "small", "smallHandler"}
    ELSE {"/large", "large", "largeHandler"}

\* whether a log entry mentions a word: the fixed words of its format name
\* no endpoint and no size, so its rendered arguments decide
LogMentions(entry, word) == \E i \in DOMAIN entry.args : entry.args[i] = word

\* C10: for both download handlers a write failure the classifier marks
\* ignorable leaves no log entry, and any other write failure leaves exactly
\* one, which names both the endpoint and the target size.
C10_WriteFailureLogged ==
    (pc[1] = "done" /\ Download(1) /\ err[1] # nil) =>
        IF ignorableError(err[1])
        THEN logs = <<>>
        ELSE /\ Len(logs) = 1
             /\ LogMentions(logs[1], FormatInt(req[1].contentLength))
             /\ \E name \in EndpointNames(1) : LogMentions(logs[1], name)


\* C11: ignorableError returns true exactly for no error, for an error that
\* is or wraps EPIPE, for an error that is or wraps ECONNRESET, and for an
\* error whose text is exactly "client disconnected"; for every other
\* non-nil error it returns false.
Wraps(e, errno) == errno \in e.chain

C11_IgnorableExactly ==
    classify.result # "unset" =>
        (classify.result = "ignorable"
         <=> \/ err[1] = nil
             \/ Wraps(err[1], "EPIPE")
             \/ Wraps(err[1], "ECONNRESET")
             \/ err[1].text = "client disconnected")

\* a wrapped EPIPE was found ignorable
C11_Witness ==
    /\ classify.result = "ignorable"
    /\ classify.wraps = 1
    /\ err[1].id = "wrapError"
    /\ Wraps(err[1], "EPIPE")


\* C12: every run of ReadFrom borrows exactly one scratch buffer and returns
\* it to the pool exactly once before the run returns, after end-of-stream
\* and after a read error alike, and never reads into it once it is returned;
\* so under any interleaving of concurrent uploads the number of buffers on
\* loan equals the number of read loops still running, and is zero once all
\* have returned.
ReadLoopRunning(p) == pc[p] \in {"rf_read", "rf_put"}
OnLoan == Cardinality({p \in Procs : bufp[p]})

LoanMatchesLoops ==
    /\ \A p \in Procs : bufp[p] <=> ReadLoopRunning(p)
    /\ OnLoan = Cardinality({p \in Procs : ReadLoopRunning(p)})
    /\ (\A p \in Procs : ~ReadLoopRunning(p)) => OnLoan = 0

C12_BufferBorrowedAndReturnedOnce ==
    [][/\ LoanMatchesLoops
       /\ LoanMatchesLoops'
       /\ \A p \in Procs :
             \* borrowed at the start of the run, and only there
             /\ (~bufp[p] /\ bufp'[p])
                    => /\ pc[p] = "idle" /\ pc'[p] = "rf_read"
                       /\ blackHolePool' \in {blackHolePool - 1, 0}
             \* returned once, in the step after which the run returns
             /\ (bufp[p] /\ ~bufp'[p])
                    => /\ pc[p] = "rf_put" /\ pc'[p] = "copy_ret"
                       /\ blackHolePool' = blackHolePool + 1
             \* the run does not return with the buffer
             /\ pc'[p] \in {"copy_ret", "done"} => ~bufp'[p]
             \* a read goes into a buffer held before and after it
             /\ reads'[p] # reads[p] => bufp[p] /\ bufp'[p]
       \* the pool changes with a borrow or a return only
       /\ blackHolePool' # blackHolePool => bufp' # bufp]_vars

\* one upload is about to return its buffer after end-of-stream while the
\* other has returned its own after a failed read
C12_Witness ==
    /\ pc[1] = "rf_put" /\ Last(reads[1]).err = EOF /\ bufp[1]
    /\ pc[2] = "copy_ret" /\ err[2] = Timeout /\ ~bufp[2]
    /\ blackHolePool = 1
    /\ OnLoan = 1


\* The naive loop on a reader: read until a read returns an error, adding
\* the length of every read to the count; io.EOF is success.  script is what
\* the reader returns, read by read; returned is FALSE while the script has
\* not yet given the read that ends the loop.
RECURSIVE NaiveLoopFrom(_, _)
NaiveLoopFrom(script, count) ==
    IF script = <<>>
    THEN [returned |-> FALSE, n |-> count, err |-> nil]
    ELSE LET r == Head(script)
         IN  IF r.err # nil
             THEN [returned |-> TRUE, n |-> count + r.size,
                   err |-> IF r.err = EOF THEN nil ELSE r.err]
             ELSE NaiveLoopFrom(Tail(script), count + r.size)

NaiveLoop(script) == NaiveLoopFrom(script, 0)

\* C13: for every sequence of read results, ReadFrom observes the same byte
\* count (the n it returns and the advance of the received counter) and the
\* same success-or-error outcome as the naive loop that reads until
\* end-of-stream or error and adds each read length to the counter.
C13_SameAsNaiveLoop ==
    req[1].path = "/slurp" =>
        LET naive == NaiveLoop(reads[1])
        IN  /\ n[1] = naive.n
            /\ BytesReceived = naive.n
            /\ naive.returned <=> pc[1] \in {"rf_put", "copy_ret", "done"}
            /\ pc[1] \in {"copy_ret", "done"} => err[1] = naive.err

\* ReadFrom has returned 8192 bytes and the error of the second read, which
\* itself delivered nothing
C13_Witness ==
    /\ pc[1] = "copy_ret"
    /\ req[1].path = "/slurp"
    /\ reads[1] = <<[size |-> blackHoleSize, err |-> nil],
                    [size |-> 0, err |-> UnexpectedEOF]>>
    /\ n[1] = blackHoleSize
    /\ BytesReceived = blackHoleSize
    /\ err[1] = UnexpectedEOF


\* C14: PrintStats never terminates, and in each sampling iteration it emits
\* a log line if and only if at least one of the two counters is greater
\* than the value it recorded at the previous iteration that logged that
\* counter; an iteration in which neither advanced emits nothing.
Reports == stats.pc = "report" /\ stats'.pc = "sleep"
Emits == logs' # logs

StatsStep ==
    \* once started the loop is never left
    /\ stats.pc # "off" =>
           stats'.pc \in {"load_x", "load_y", "report", "sleep"}
    \* only the reporting step of an iteration emits, and one line at most
    /\ (Emits /\ stats' # stats) => Reports
    /\ Reports =>
           /\ Emits <=> \/ stats.x > stats.lastBytesServed
                         \/ stats.y > stats.lastBytesReceived
           /\ Emits => Len(logs') = Len(logs) + 1
           /\ (stats.x <= stats.lastBytesServed
                /\ stats.y <= stats.lastBytesReceived) => logs' = logs
    \* the value compared with is the sample of the last iteration that
    \* logged that counter
    /\ stats'.lastBytesServed # stats.lastBytesServed =>
           /\ Reports /\ Emits
           /\ stats'.lastBytesServed = stats.x
    /\ stats'.lastBytesReceived # stats.lastBytesReceived =>
           /\ Reports /\ Emits
           /\ stats'.lastBytesReceived = stats.y

C14_ReportsOnAdvanceForever ==
    /\ [][StatsStep]_vars
    /\ []<>(stats.pc \in {"off", "load_x"})

\* the reporter has logged both counters in one line and, the counters
\* having stood still since, has gone through a later iteration silently
C14_Witness ==
    /\ stats.pc = "sleep"
    /\ stats.lastBytesServed = 1 /\ BytesServed = 1
    /\ stats.lastBytesReceived = 2 /\ BytesReceived = 2
    /\ pc[1] = "done" /\ pc[2] = "done"
    /\ Len(logs) = 1
    /\ logs[1].text = "Sent: 0.00Mbps Received: 0.00Mbps"


\* C15: under any interleaving of downloads, uploads, discovery requests and
\* the throughput reporter the served and received counters never decrease
\* and are never reset: every step leaves each counter unchanged or adds a
\* non-negative amount to it by an atomic add, and the reporter only reads
\* them.
C15_CountersOnlyGrow ==
    [][/\ BytesServed' >= BytesServed
       /\ BytesReceived' >= BytesReceived
       \* what is added is the length of the chunk or of the read
       /\ BytesServed' # BytesServed =>
              /\ BytesServed' - BytesServed \in 1..chunkSize
              /\ \E p \in Procs : pc[p] = "cbw_loop" /\ pc'[p] # pc[p]
       /\ BytesReceived' # BytesReceived =>
              /\ BytesReceived' - BytesReceived \in UploadSizes
              /\ \E p \in Procs : pc[p] = "rf_read" /\ reads'[p] # reads[p]
       \* a step of the reporter or of the discovery handler changes neither
       /\ (stats' # stats \/ once' # once \/ generatedConfig' # generatedConfig)
              => BytesServed' = BytesServed /\ BytesReceived' = BytesReceived
      ]_vars

\* the reporter has seen the served counter half way through a GET of /large
\* that is now complete, next to an upload in progress
C15_Witness ==
    /\ req[1].path = "/large" /\ pc[1] = "done"
    /\ BytesServed = largeContentLength
    /\ stats.lastBytesServed = chunkSize
    /\ pc[2] = "rf_read" /\ BytesReceived = 2
    /\ stats.lastBytesReceived = 1


\* C16: for a GET of /small or /large the Content-Length header is set to the
\* endpoint's fixed size (1 for /small, largeContentLength for /large) before
\* the status line is sent and before the first body byte is written, and
\* when no write fails the bytes written add up to exactly that
\* Content-Length.
FixedSize(path) == IF path = "/small" THEN 1 ELSE largeContentLength

C16_ContentLengthFirst ==
    (Download(1) /\ req[1].method = MethodGet) =>
        \* no body write before the status line
        /\ resp[1].attempts > 0 => resp[1].status = StatusOK
        \* the header that went out with the status line has the length
        /\ resp[1].status # 0 =>
               /\ "Content-Length" \in DOMAIN resp[1].sent
               /\ resp[1].sent["Content-Length"]
                      = FormatInt(FixedSize(req[1].path))
        /\ (pc[1] = "done" /\ err[1] = nil) =>
               /\ "Content-Length" \in DOMAIN resp[1].sent
               /\ FormatInt(SumSeq(resp[1].writes))
                      = resp[1].sent["Content-Length"]

\* a GET of /large answered in full
C16_Witness ==
    /\ pc[1] = "done"
    /\ req[1].path = "/large" /\ req[1].method = MethodGet
    /\ err[1] = nil
    /\ resp[1].status = StatusOK
    /\ resp[1].sent["Content-Length"] = FormatInt(largeContentLength)
    /\ Len(resp[1].writes) = LargeChunks
    /\ SumSeq(resp[1].writes) = largeContentLength


\* C17: when a write fails inside chunkedBodyWriter the run stops at once:
\* it returns that error, issues no further write, does not retry the failed
\* write and advances the served counter no further; what was counted before
\* the failure is not rolled back.
WriteFails ==
    /\ resp'[1].attempts = resp[1].attempts + 1
    /\ resp'[1].writes = resp[1].writes

C17_StopsAtFirstFailure ==
    [][/\ WriteFails =>
              /\ err[1] = nil
              /\ err'[1] \in WriteErrors
              /\ pc'[1] = "cbw_ret"
              /\ BytesServed' = BytesServed
       \* after the failure: the error stays, no write, no add, no rollback
       /\ err[1] # nil =>
              /\ pc[1] \in {"cbw_ret", "done"}
              /\ err'[1] = err[1]
              /\ resp'[1] = resp[1]
              /\ BytesServed' = BytesServed
              /\ n'[1] = n[1]
       \* the failed write was the last one attempted
       /\ err'[1] # nil => resp'[1].attempts = Len(resp'[1].writes) + 1
      ]_vars

\* the second chunk of 2 * chunkSize + 1 bytes failed: both chunks are
\* counted, one is written, the last byte was never attempted
C17_Witness ==
    /\ pc[1] = "done"
    /\ req[1].path = "chunkedBodyWriter"
    /\ req[1].contentLength = 2 * chunkSize + 1
    /\ err[1] = EPIPE
    /\ resp[1].writes = <<chunkSize>>
    /\ resp[1].attempts = 2
    /\ n[1] = 1
    /\ BytesServed = 2 * chunkSize


\* C18: every transfer terminates on exactly one of two causes: a run of
\* chunkedBodyWriter ends either at its first failed write or after the
\* content length N is exhausted, after at most ceil(N / chunkSize) writes;
\* a run of ReadFrom ends exactly when a read of the body returns
\* end-of-stream or another error, and a body that keeps returning reads
\* without error keeps the upload loop running.
CeilChunks(N) == (N + chunkSize - 1) \div chunkSize

DownloadEnds ==
    LET N == req[1].contentLength
        w == resp[1]
    IN  /\ w.attempts <= CeilChunks(N)
        /\ pc[1] \in {"cbw_loop", "cbw_write_chunk", "cbw_write_rest"} =>
               /\ err[1] = nil
               /\ w.attempts = Len(w.writes)
               /\ pc[1] # "cbw_loop" => SumSeq(w.writes) < N
        /\ pc[1] \in {"cbw_ret", "done"} =>
               \/ /\ err[1] # nil
                  /\ w.attempts = Len(w.writes) + 1
                  /\ SumSeq(w.writes) < N
               \/ /\ err[1] = nil
                  /\ w.attempts = Len(w.writes)
                  /\ w.attempts = CeilChunks(N)
                  /\ SumSeq(w.writes) = N

UploadEnds ==
    LET s == reads[1]
    IN  /\ pc[1] = "rf_read" => \A i \in 1..Len(s) : s[i].err = nil
        /\ pc[1] \in {"rf_put", "copy_ret", "done"} =>
               /\ Len(s) >= 1
               /\ s[Len(s)].err # nil
               /\ \A i \in 1..(Len(s) - 1) : s[i].err = nil

C18_EndsOnOneCause ==
    /\ req[1].path = "chunkedBodyWriter" => DownloadEnds
    /\ req[1].path = "/slurp" => UploadEnds

\* two reads have returned without error and the upload loop is still
\* reading
C18_Witness ==
    /\ req[1].path = "/slurp"
    /\ pc[1] = "rf_read"
    /\ Len(reads[1]) = 2
    /\ reads[1][1].err = nil /\ reads[1][2].err = nil
    /\ reads[1][2].size = blackHoleSize


\* C19: every entry point through which countingDiscard consumes bytes
\* (Write, WriteString, ReadFrom) advances the received counter by exactly
\* the number of bytes it reports as consumed, so the counter equals the
\* bytes discarded whichever entry point the copy uses.
SinkReturned ==
    \/ pc[1] = "done" /\ req[1].path \in {"countingDiscard.Write",
                                            "countingDiscard.WriteString"}
    \/ pc[1] \in {"copy_ret", "done"} /\ req[1].path = "/slurp"

C19_EveryEntryPointCounts == SinkReturned => BytesReceived = n[1]


\* C20: for handler sets built by either constructor (BulkHandlers, which
\* takes no counters, and CountingBulkHandlers), whenever a download or
\* upload handler performs its atomic add the counter reference is non-nil,
\* so a GET of /small or /large and a request to /slurp complete without a
\* fault.
AboutToAdd(p) ==
    \/ pc[p] = "cbw_loop" /\ n[p] > 0
    \/ pc[p] = "rf_read"

C20_CounterNeverNil ==
    \A p \in Procs :
        /\ AboutToAdd(p) => h.counting
        /\ pc[p] # "panic"

====
